---- MODULE Spec2Model ----
(***************************************************************************)
(* Hantverkar Dashboard API (src/main.py, src/schemas.py).                 *)
(*                                                                         *)
(* The store holds four collections; every request is handled by one of    *)
(* the workers of Req.  The single-store-call handlers are one step each;  *)
(* create_order and list_orders are a sequence of steps, one per store     *)
(* call, so that concurrently served requests interleave between calls.    *)
(*                                                                         *)
(* Values                                                                  *)
(*   Optional[T]   <<>> is None, <<v>> is the value v                      *)
(*   id strings    [k, n]: k = "hex" is the 24 lower-case hex digits of    *)
(*                 ObjectId n, "HEX" the same digits in upper case, "bad"  *)
(*                 a string that is no ObjectId, "empty" the string ""     *)
(*   ObjectId      [k |-> "ObjectId", n |-> n]                             *)
(*   text          a sequence of one-character strings                    *)
(*   float         unit_price and price count quarters (1 is 0.25),        *)
(*                 quantity counts halves (1 is 0.5), so a running total   *)
(*                 counts eighths; all of these are exact in binary        *)
(*                 floating point.  A rounded total counts hundredths.     *)
(***************************************************************************)
EXTENDS Integers, Sequences, FiniteSets, TLC

VARIABLES customer, installer, material, order, nextId, req

vars == <<customer, installer, material, order, nextId, req>>

(*************************** bounds of the model ***************************)
\* documents the store accepts before the model stops inserting
MaxDocs == 3
\* of them orders
MaxOrders == 2
\* items of one order payload
MaxItems == 2

Req == {"w1", "w2"}

None == <<>>
Some(v) == <<v>>
IsNone(o) == o = <<>>
Get(o) == o[1]

(****************************** identifiers ********************************)
ObjectId(n) == [k |-> "ObjectId", n |-> n]
Hex(n) == [k |-> "hex", n |-> n]
UpperHex(n) == [k |-> "HEX", n |-> n]
Malformed == [k |-> "bad", n |-> 0]
EmptyStr == [k |-> "empty", n |-> 0]

\* bson: ObjectId(s) accepts the 24 hex digits in either case
WellFormed(s) == s.k \in {"hex", "HEX"}
\* bson: str(ObjectId) is the lower-case hex form
str(o) == Hex(o.n)
isObjectId(v) == v.k = "ObjectId"
\* truth value of a Python str
Truthy(s) == s.k # "empty"

\* oid: defined where ObjectId(id_str) does not raise; the callers test
\* OidRaises first and answer 400 "Ogiltigt ID"
oid(id_str) == ObjectId(id_str.n)
OidRaises(id_str) == ~WellFormed(id_str)

(********************************* text ************************************)
Lower(c) ==
  CASE c = "A" -> "a"
    [] c = "B" -> "b"
    [] OTHER -> c

LowerText(t) == [i \in 1..Len(t) |-> Lower(t[i])]

\* {"$regex": q, "$options": "i"} for a pattern q without metacharacters:
\* the value holds q somewhere, letter case ignored
RegexI(t, q) ==
  \E i \in 1..(Len(t) - Len(q) + 1) :
    SubSeq(LowerText(t), i, i + Len(q) - 1) = LowerText(q)

(************************* document store gateway **************************)
\* create_document: the payload's fields and the generated _id
Document(payload, n) == ("_id" :> ObjectId(n)) @@ payload

Insert(coll, payload, n) == Append(coll, Document(payload, n))

\* Optional[str] fields of the schemas that the text filters read
OptionalText == {"company"}

\* the texts a field holds: none for a None
TextsOf(doc, f) == IF f \in OptionalText THEN doc[f] ELSE <<doc[f]>>

\* A filter: eq maps field names to the values they must equal; any is None
\* or Some([fields, regex]), the "$or" of case-insensitive regex matches.
Matches(doc, filter_q) ==
  /\ \A f \in DOMAIN filter_q.eq : f \in DOMAIN doc /\ doc[f] = filter_q.eq[f]
  /\ \/ IsNone(filter_q.any)
     \/ \E f \in Get(filter_q.any).fields :
          /\ f \in DOMAIN doc
          /\ \E i \in 1..Len(TextsOf(doc, f)) :
               RegexI(TextsOf(doc, f)[i], Get(filter_q.any).regex)

\* filter_q = {}
EmptyFilter == [eq |-> <<>>, any |-> None]

\* get_documents: the matching documents, in insertion order
get_documents(coll, filter_q) == SelectSeq(coll, LAMBDA d : Matches(d, filter_q))

\* find_one({"_id": o}): Some(document) or None
find_one(coll, o) ==
  LET hits == SelectSeq(coll, LAMBDA d : d._id = o)
  IN  IF hits = <<>> THEN None ELSE Some(Head(hits))

(******************************* responses *********************************)
Ok(body) == [status |-> 200, detail |-> <<>>, body |-> <<body>>]
\* HTTPException(status_code=400, detail="Ogiltigt ID")
InvalidIdentifier == [status |-> 400, detail |-> <<"Ogiltigt ID">>, body |-> <<>>]
\* HTTPException(status_code=404, detail=f"Material saknas: {item.material_id}")
MaterialNotFound(material_id) ==
  [status |-> 404, detail |-> <<"Material saknas: ", material_id>>, body |-> <<>>]

(******************************* workers ***********************************)
\* A worker's request-local state.  arrived is the request as validated,
\* payload the object the handler works on; writes counts the documents the
\* request has inserted.
Idle ==
  [pc |-> "idle", op |-> "none", arrived |-> <<>>, payload |-> <<>>, i |-> 0,
   total |-> 0, docs |-> <<>>, enriched |-> <<>>, writes |-> 0, result |-> <<>>]

Free(r) == req[r].pc \in {"idle", "done"}

Returned(op, arrived, writes, result) ==
  [Idle EXCEPT !.pc = "done", !.op = op, !.arrived = arrived,
               !.writes = writes, !.result = <<result>>]

(***************************** serialization *******************************)
\* serialize_item leaving the material_id as it is stored
serialize_item_keep(item) == item

serialize_item(item) ==
  IF "material_id" \in DOMAIN item /\ isObjectId(item.material_id)
  THEN [item EXCEPT !.material_id = str(@)]
  ELSE item

serialize(doc) ==
  LET renamed ==
        IF "_id" \in DOMAIN doc
        THEN [f \in (DOMAIN doc \ {"_id"}) \cup {"id"} |->
                IF f = "id" THEN str(doc._id) ELSE doc[f]]
        ELSE doc
  IN  IF "items" \in DOMAIN renamed /\ renamed.items # <<>>
      THEN [renamed EXCEPT
              !.items = [i \in 1..Len(@) |-> serialize_item(@[i])]]
      ELSE renamed

(************************ customers, installers, materials *****************)
\* Each of these handlers makes one store call and is one step.  Of the
\* schemas' fields the model keeps those a handler or a filter reads.

CanInsert == nextId <= MaxDocs
CanInsertOrder == CanInsert /\ Len(order) < MaxOrders

create_customer(r, payload) ==
  /\ Free(r) /\ CanInsert
  /\ customer' = Insert(customer, payload, nextId)
  /\ nextId' = nextId + 1
  /\ req' = [req EXCEPT ![r] =
       Returned("create_customer", <<>>, 1, Ok([id |-> Hex(nextId)]))]
  /\ UNCHANGED <<installer, material, order>>

list_customers(r, q) ==
  LET filter_q ==
        IF ~IsNone(q) /\ Get(q) # <<>>
        THEN [eq |-> <<>>,
              any |-> Some([fields |-> {"name", "company"}, regex |-> Get(q)])]
        ELSE EmptyFilter
      docs == get_documents(customer, filter_q)
  IN  /\ Free(r)
      /\ req' = [req EXCEPT ![r] =
           Returned("list_customers", <<>>, 0,
                    Ok([i \in 1..Len(docs) |-> serialize(docs[i])]))]
      /\ UNCHANGED <<customer, installer, material, order, nextId>>

create_installer(r, payload) ==
  /\ Free(r) /\ CanInsert
  /\ installer' = Insert(installer, payload, nextId)
  /\ nextId' = nextId + 1
  /\ req' = [req EXCEPT ![r] =
       Returned("create_installer", <<>>, 1, Ok([id |-> Hex(nextId)]))]
  /\ UNCHANGED <<customer, material, order>>

list_installers(r, active) ==
  LET filter_q ==
        IF ~IsNone(active)
        THEN [eq |-> ("active" :> Get(active)), any |-> None]
        ELSE EmptyFilter
      docs == get_documents(installer, filter_q)
  IN  /\ Free(r)
      /\ req' = [req EXCEPT ![r] =
           Returned("list_installers", <<>>, 0,
                    Ok([i \in 1..Len(docs) |-> serialize(docs[i])]))]
      /\ UNCHANGED <<customer, installer, material, order, nextId>>

\* create_material replacing the material that has the payload's sku
create_material_upsert(r, payload) ==
  /\ Free(r) /\ CanInsert
  /\ material' =
       IF \E k \in 1..Len(material) : material[k].sku = payload.sku
       THEN [k \in 1..Len(material) |->
               IF material[k].sku = payload.sku
               THEN Document(payload, material[k]._id.n) ELSE material[k]]
       ELSE Insert(material, payload, nextId)
  /\ nextId' = nextId + 1
  /\ req' = [req EXCEPT ![r] =
       Returned("create_material", <<>>, 1, Ok([id |-> Hex(nextId)]))]
  /\ UNCHANGED <<customer, installer, order>>

create_material(r, payload) ==
  /\ Free(r) /\ CanInsert
  /\ material' = Insert(material, payload, nextId)
  /\ nextId' = nextId + 1
  /\ req' = [req EXCEPT ![r] =
       Returned("create_material", <<>>, 1, Ok([id |-> Hex(nextId)]))]
  /\ UNCHANGED <<customer, installer, order>>

list_materials(r, search) ==
  LET filter_q ==
        IF ~IsNone(search) /\ Get(search) # <<>>
        THEN [eq |-> <<>>,
              any |-> Some([fields |-> {"name", "sku"}, regex |-> Get(search)])]
        ELSE EmptyFilter
      docs == get_documents(material, filter_q)
  IN  /\ Free(r)
      /\ req' = [req EXCEPT ![r] =
           Returned("list_materials", <<>>, 0,
                    Ok([i \in 1..Len(docs) |-> serialize(docs[i])]))]
      /\ UNCHANGED <<customer, installer, material, order, nextId>>

(********************************* orders **********************************)
\* round(x, 2) of the exact value num/den: to the nearest hundredth, a tie
\* to the even one (Python rounds a float's exact value half to even)
RoundHalfEven(num, den) ==
  LET q == num \div den
      r == num % den
  IN  IF 2 * r < den THEN q
      ELSE IF 2 * r > den THEN q + 1
      ELSE IF q % 2 = 0 THEN q ELSE q + 1

\* round(total, 2): total counts eighths, the result hundredths
round2(total) == RoundHalfEven(total * 100, 8)

\* PriceOf reading a field the material documents do not have
PriceOfWrongField(mat) == IF "unit_price" \in DOMAIN mat THEN mat.unit_price ELSE 0

\* mat.get("price", 0)
PriceOf(mat) == IF "price" \in DOMAIN mat THEN mat.price ELSE 0

\* the default of the specification
DefaultStatusNew == "new"

\* Field("ny", ...): the status of a request body that gives none
DefaultStatus == "ny"

\* the Order a request body validates to: a missing status gets the default
Order(body) ==
  [body EXCEPT !.status = IF IsNone(@) THEN DefaultStatus ELSE Get(@)]

\* the request as it arrives: total = 0.0, the loop is at the first item
Arrived(body) ==
  [Idle EXCEPT !.pc = "items", !.op = "create_order",
               !.arrived = body, !.payload = Order(body), !.i = 1]

\* PriceItem with "total =" for "total +="
PriceItemOverwrite(w, mats) ==
  LET item == w.payload.items[w.i]
      mat == find_one(mats, oid(item.material_id))
      unit_price == IF IsNone(item.unit_price) THEN PriceOf(Get(mat))
                    ELSE Get(item.unit_price)
  IN  IF IsNone(item.unit_price) /\ OidRaises(item.material_id)
      THEN Returned("create_order", w.arrived, w.writes, InvalidIdentifier)
      ELSE IF IsNone(item.unit_price) /\ IsNone(mat)
      THEN Returned("create_order", w.arrived, w.writes,
                    MaterialNotFound(item.material_id))
      ELSE [w EXCEPT !.payload.items[w.i].unit_price = Some(unit_price),
                     !.total = unit_price * item.quantity,
                     !.i = @ + 1]

\* PriceItem pricing an item whose material is missing at 0
PriceItemMissingFree(w, mats) ==
  LET item == w.payload.items[w.i]
      mat == find_one(mats, oid(item.material_id))
      unit_price == IF ~IsNone(item.unit_price) THEN Get(item.unit_price)
                    ELSE IF IsNone(mat) THEN 0 ELSE PriceOf(Get(mat))
  IN  IF IsNone(item.unit_price) /\ OidRaises(item.material_id)
      THEN Returned("create_order", w.arrived, w.writes, InvalidIdentifier)
      ELSE [w EXCEPT !.payload.items[w.i].unit_price = Some(unit_price),
                     !.total = @ + unit_price * item.quantity,
                     !.i = @ + 1]

\* one pass of the loop over payload.items, reading the material collection
\* mats: the worker's state after it
PriceItem(w, mats) ==
  LET item == w.payload.items[w.i]
      mat == find_one(mats, oid(item.material_id))
      unit_price == IF IsNone(item.unit_price) THEN PriceOf(Get(mat))
                    ELSE Get(item.unit_price)
  IN  IF IsNone(item.unit_price) /\ OidRaises(item.material_id)
      THEN Returned("create_order", w.arrived, w.writes, InvalidIdentifier)
      ELSE IF IsNone(item.unit_price) /\ IsNone(mat)
      THEN Returned("create_order", w.arrived, w.writes,
                    MaterialNotFound(item.material_id))
      ELSE [w EXCEPT !.payload.items[w.i].unit_price = Some(unit_price),
                     !.total = @ + unit_price * item.quantity,
                     !.i = @ + 1]

InLoop(w) == w.pc = "items" /\ w.i <= Len(w.payload.items)
AfterLoop(w) == w.pc = "items" /\ w.i > Len(w.payload.items)

\* Priced keeping a total the request body gave
PricedIfMissing(w) ==
  IF IsNone(w.payload.total)
  THEN [w.payload EXCEPT !.total = Some(round2(w.total))]
  ELSE w.payload

\* payload.total = round(total, 2)
Priced(w) == [w.payload EXCEPT !.total = Some(round2(w.total))]

\* {"id": inserted_id, "total": payload.total}
Created(w, n) ==
  Returned("create_order", w.arrived, w.writes + 1,
           Ok([id |-> Hex(n), total |-> Get(Priced(w).total)]))

RECURSIVE PriceItems(_, _)
\* the whole loop, against one content of the material collection
PriceItems(w, mats) ==
  IF InLoop(w) THEN PriceItems(PriceItem(w, mats), mats) ELSE w

\* create_order served with no other request in between
create_order(r, body) ==
  LET w == PriceItems(Arrived(body), material)
  IN  /\ Free(r)
      /\ IF AfterLoop(w)
         THEN /\ CanInsertOrder
              /\ order' = Insert(order, Priced(w), nextId)
              /\ nextId' = nextId + 1
              /\ req' = [req EXCEPT ![r] = Created(w, nextId)]
         ELSE /\ req' = [req EXCEPT ![r] = w]
              /\ UNCHANGED <<order, nextId>>
      /\ UNCHANGED <<customer, installer, material>>

\* create_order_begin inserting the order as it arrived
create_order_begin_insert(r, body) ==
  /\ Free(r)
  /\ CanInsertOrder
  /\ order' = Insert(order, Order(body), nextId)
  /\ nextId' = nextId + 1
  /\ req' = [req EXCEPT ![r] = [Arrived(body) EXCEPT !.writes = 1]]
  /\ UNCHANGED <<customer, installer, material>>

\* create_order one store call at a time, for requests served concurrently:
\* the request arrives,
create_order_begin(r, body) ==
  /\ Free(r)
  /\ req' = [req EXCEPT ![r] = Arrived(body)]
  /\ UNCHANGED <<customer, installer, material, order, nextId>>

\* the loop makes one pass,
create_order_item(r) ==
  /\ InLoop(req[r])
  /\ req' = [req EXCEPT ![r] = PriceItem(req[r], material)]
  /\ UNCHANGED <<customer, installer, material, order, nextId>>

\* and after the loop the order is inserted and the response returned
create_order_insert(r) ==
  /\ AfterLoop(req[r])
  /\ CanInsertOrder
  /\ order' = Insert(order, Priced(req[r]), nextId)
  /\ nextId' = nextId + 1
  /\ req' = [req EXCEPT ![r] = Created(req[r], nextId)]
  /\ UNCHANGED <<customer, installer, material>>

\* filter_q of list_orders: a parameter that is None or "" adds no condition
order_filter(status, customer_id) ==
  [eq |-> (IF ~IsNone(status) /\ Get(status) # ""
           THEN "status" :> Get(status) ELSE <<>>)
          @@ (IF ~IsNone(customer_id) /\ Truthy(Get(customer_id))
              THEN "customer_id" :> Get(customer_id) ELSE <<>>),
   any |-> None]

\* the worker after get_documents("order", filter_q) returned docs
Found(status, customer_id, docs) ==
  LET args == [status |-> status, customer_id |-> customer_id]
  IN  IF docs = <<>>
      THEN Returned("list_orders", args, 0, Ok(<<>>))
      ELSE [Idle EXCEPT !.pc = "enrich", !.op = "list_orders",
                        !.arrived = args, !.docs = docs]

\* cust.get("name") if cust else None
NameOf(found) ==
  IF ~IsNone(found) /\ "name" \in DOMAIN Get(found) THEN Some(Get(found).name)
  ELSE None

\* one pass of the loop over docs, reading the customer and installer
\* collections custs and insts: the worker's state after it
Enrich(w, custs, insts) ==
  LET doc == Head(w.docs)
      has_cust == Truthy(doc.customer_id)
      has_inst == ~IsNone(doc.installer_id) /\ Truthy(Get(doc.installer_id))
      cust == IF has_cust THEN find_one(custs, oid(doc.customer_id)) ELSE None
      inst == IF has_inst THEN find_one(insts, oid(Get(doc.installer_id)))
              ELSE None
      doc_serial == ("customer_name" :> NameOf(cust))
                    @@ ("installer_name" :> NameOf(inst)) @@ serialize(doc)
      enriched == Append(w.enriched, doc_serial)
  IN  IF \/ has_cust /\ OidRaises(doc.customer_id)
         \/ has_inst /\ OidRaises(Get(doc.installer_id))
      THEN Returned("list_orders", w.arrived, 0, InvalidIdentifier)
      ELSE IF Tail(w.docs) = <<>>
      THEN Returned("list_orders", w.arrived, 0, Ok(enriched))
      ELSE [w EXCEPT !.docs = Tail(@), !.enriched = enriched]

RECURSIVE EnrichAll(_, _, _)
\* the whole loop, against one content of the two collections
EnrichAll(w, custs, insts) ==
  IF w.pc = "enrich" THEN EnrichAll(Enrich(w, custs, insts), custs, insts)
  ELSE w

\* list_orders served with no other request in between
list_orders(r, status, customer_id) ==
  LET docs == get_documents(order, order_filter(status, customer_id))
  IN  /\ Free(r)
      /\ req' = [req EXCEPT ![r] =
           EnrichAll(Found(status, customer_id, docs), customer, installer)]
      /\ UNCHANGED <<customer, installer, material, order, nextId>>

\* list_orders one store call at a time: the request arrives and the orders
\* are queried,
list_orders_find(r, status, customer_id) ==
  LET docs == get_documents(order, order_filter(status, customer_id))
  IN  /\ Free(r)
      /\ req' = [req EXCEPT ![r] = Found(status, customer_id, docs)]
      /\ UNCHANGED <<customer, installer, material, order, nextId>>

\* then the loop makes one pass
list_orders_enrich(r) ==
  /\ req[r].pc = "enrich"
  /\ req' = [req EXCEPT ![r] = Enrich(req[r], customer, installer)]
  /\ UNCHANGED <<customer, installer, material, order, nextId>>

(************************* requests of the model ***************************)
Ab == <<"A", "b">>
Ba == <<"B", "a">>

ItemLists(items) == UNION {[1..n -> items] : n \in 0..MaxItems}

Init ==
  /\ customer = <<>> /\ installer = <<>> /\ material = <<>> /\ order = <<>>
  /\ nextId = 1
  /\ req = [r \in Req |-> Idle]

(* Spec: every endpoint, one request after the other *)
Customers == [name : {Ab}, company : {None, Some(Ba)}]
Installers == [name : {Ba}, active : BOOLEAN]
Materials == [sku : {Ab}, name : {Ba}, price : {1, 10}]
Searches == {None, Some(<<>>), Some(<<"B", "A">>)}
Actives == {None, Some(TRUE), Some(FALSE)}
Bodies ==
  [customer_id : {Hex(1)}, installer_id : {None},
   items : ItemLists([material_id : {Hex(1)}, quantity : {3},
                      unit_price : {None, Some(1)}]),
   status : {None}, total : {Some(999)}]
Statuses == {None, Some("ny")}
CustomerIds == {None}

Next ==
  \E r \in {"w1"} :
    \/ \E p \in Customers : create_customer(r, p)
    \/ \E q \in Searches : list_customers(r, q)
    \/ \E p \in Installers : create_installer(r, p)
    \/ \E a \in Actives : list_installers(r, a)
    \/ \E p \in Materials : create_material(r, p)
    \/ \E q \in Searches : list_materials(r, q)
    \/ \E b \in Bodies : create_order(r, b)
    \/ \E st \in Statuses, c \in CustomerIds : list_orders(r, st, c)

Spec == Init /\ [][Next]_vars

(* SpecPricing: orders against a catalog of materials *)
\* a material document of the store that has no price field
LegacyMaterial == [_id |-> ObjectId(1), sku |-> Ab, name |-> Ab]

\* items that carry a price, for an identifier that is none, and items to
\* be priced from the catalog
PricingItems ==
  [material_id : {Malformed}, quantity : {3}, unit_price : {Some(1)}]
    \cup [material_id : {Hex(1), Malformed}, quantity : {1},
          unit_price : {None}]

PricingMaterials == [sku : {Ab}, name : {Ba}, price : {10}]

PricingBodies ==
  [customer_id : {Hex(1)}, installer_id : {None},
   items : ItemLists(PricingItems), status : {None}, total : {None}]

InitPricing ==
  /\ customer = <<>> /\ installer = <<>> /\ order = <<>>
  /\ material \in {<<>>, <<LegacyMaterial>>}
  /\ nextId = Len(material) + 1
  /\ req = [r \in Req |-> Idle]

NextPricing ==
  \E r \in {"w1"} :
    \/ \E p \in PricingMaterials : create_material(r, p)
    \/ \E b \in PricingBodies : create_order(r, b)

SpecPricing == InitPricing /\ [][NextPricing]_vars

(* SpecListing: orders of any customer, installer and status, listed *)
ListingBodies ==
  [customer_id : {Hex(1), Malformed, EmptyStr}, installer_id : {None, Some(Hex(1))},
   items : {<<>>}, status : {None, Some("")}, total : {None}]
ListingStatuses == {None, Some(""), Some("ny"), Some("new")}
ListingCustomerIds == {None}

NextListing ==
  \E r \in {"w1"} :
    \/ \E p \in [name : {Ab}, company : {None}] : create_customer(r, p)
    \/ \E p \in [name : {Ba}, active : {TRUE}] : create_installer(r, p)
    \/ \E b \in ListingBodies : create_order(r, b)
    \/ \E st \in ListingStatuses, c \in ListingCustomerIds :
         list_orders(r, st, c)

SpecListing == Init /\ [][NextListing]_vars

(* SpecConcurrent: two workers serve requests one store call at a time *)
ConcurrentBodies ==
  [customer_id : {Hex(1)}, installer_id : {None},
   items : ItemLists([material_id : {Hex(1), Malformed}, quantity : {3},
                      unit_price : {None}]),
   status : {None}, total : {None}]

NextConcurrent ==
  \E r \in Req :
    \/ \E p \in [name : {Ab}, company : {None}] : create_customer(r, p)
    \/ \E p \in PricingMaterials : create_material(r, p)
    \/ \E b \in ConcurrentBodies : create_order_begin(r, b)
    \/ create_order_item(r)
    \/ create_order_insert(r)
    \/ list_orders_find(r, None, None)
    \/ list_orders_enrich(r)

SpecConcurrent == Init /\ [][NextConcurrent]_vars

(* SpecSerialize: serialize applied to a stored document, and again *)
StoredDocs ==
  [_id : {ObjectId(1)}, customer_id : {Hex(3)},
   items : ItemLists([material_id : {ObjectId(2), Hex(2), UpperHex(2), Malformed},
                      quantity : {3}, unit_price : {Some(1)}])]
    \cup [_id : {ObjectId(1)}, name : {Ab, Ba}]

InitSerialize ==
  /\ customer = <<>> /\ installer = <<>> /\ material = <<>>
  /\ order \in {<<d>> : d \in StoredDocs}
  /\ nextId = 2
  /\ req = [r \in Req |-> Idle]

serialize_once(r) ==
  /\ req[r].pc = "idle"
  /\ \E i \in 1..Len(order) :
       req' = [req EXCEPT ![r] =
         Returned("serialize", Some(order[i]), 0, serialize(order[i]))]
  /\ UNCHANGED <<customer, installer, material, order, nextId>>

serialize_again(r) ==
  /\ req[r].op = "serialize"
  /\ req' = [req EXCEPT ![r] =
       Returned("serialize_again", req[r].result, 0,
                serialize(Get(req[r].result)))]
  /\ UNCHANGED <<customer, installer, material, order, nextId>>

NextSerialize == \E r \in Req : serialize_once(r) \/ serialize_again(r)

SpecSerialize == InitSerialize /\ [][NextSerialize]_vars

(***************************************************************************)
(* Properties                                                              *)
(***************************************************************************)
\* the requests of one handler that have been answered
Answered(op) == {r \in Req : req[r].pc = "done" /\ req[r].op = op}
Succeeded(op) == {r \in Answered(op) : Get(req[r].result).status = 200}
Body(r) == Get(Get(req[r].result).body)

RECURSIVE SumItems(_)
\* the sum over items of unit_price x quantity, in eighths
SumItems(items) ==
  IF items = <<>> THEN 0
  ELSE Get(Head(items).unit_price) * Head(items).quantity + SumItems(Tail(items))

\* c hundredths is total eighths rounded to two decimals: nearest, and the
\* even one of the two when total lies halfway between two hundredths
IsRounded(total, c) ==
  LET d == 25 * total - 2 * c
  IN  d = 0 \/ (d \in {-1, 1} /\ c % 2 = 0)

AllExplicit(items) == \A i \in 1..Len(items) : ~IsNone(items[i].unit_price)

\* the documents of a collection an identifier string names
Named(coll, id_str) ==
  {k \in 1..Len(coll) :
     id_str.k \in {"hex", "HEX"} /\ coll[k]._id.n = id_str.n}

\* the stored order a create_order response names
OrdersNamed(r) == {k \in 1..Len(order) : order[k]._id.n = Body(r).id.n}

\* C1: a create_order request whose items all carry a unit_price (the empty
\* item list included) succeeds, and the total it returns is the sum over
\* its items of unit_price x quantity rounded to two decimals, whatever the
\* material collection holds.
C1_ExplicitTotal ==
  \A r \in Answered("create_order") :
    AllExplicit(req[r].arrived.items) =>
      /\ Get(req[r].result).status = 200
      /\ IsRounded(SumItems(req[r].arrived.items), Body(r).total)

\* C1 happens: an order of two priced items for identifiers that are none is
\* created while the material collection is empty.
C1_Witness ==
  \E r \in Succeeded("create_order") :
    /\ Len(req[r].arrived.items) = 2
    /\ AllExplicit(req[r].arrived.items)
    /\ material = <<>>

\* C2: of a successful create_order, an item that arrived without unit_price
\* is stored with the price field of the material its material_id names (0
\* when that material has no price field), and an item that arrived with a
\* unit_price is stored with it.
C2_ResolvedPrices ==
  \A r \in Succeeded("create_order") :
    \A k \in OrdersNamed(r) :
      /\ Len(order[k].items) = Len(req[r].arrived.items)
      /\ \A i \in 1..Len(req[r].arrived.items) :
           LET was == req[r].arrived.items[i]
               now == order[k].items[i]
           IN  /\ now.material_id = was.material_id
               /\ now.quantity = was.quantity
               /\ IF IsNone(was.unit_price)
                  THEN \E m \in Named(material, was.material_id) :
                         now.unit_price =
                           Some(IF "price" \in DOMAIN material[m]
                                THEN material[m].price ELSE 0)
                  ELSE now.unit_price = was.unit_price

\* C2 happens: an order is stored that arrived with a priced item and with an
\* item to be priced from a material that has no price field.
C2_Witness ==
  \E r \in Succeeded("create_order") :
    /\ OrdersNamed(r) # {}
    /\ \E i, j \in 1..Len(req[r].arrived.items) :
         /\ ~IsNone(req[r].arrived.items[i].unit_price)
         /\ IsNone(req[r].arrived.items[j].unit_price)
         /\ \E m \in Named(material, req[r].arrived.items[j].material_id) :
              "price" \notin DOMAIN material[m]

\* the first item of a request that has no unit_price and whose material_id
\* names no material: 0 when there is none
Unpriceable(items) ==
  {i \in 1..Len(items) :
     IsNone(items[i].unit_price) /\ Named(material, items[i].material_id) = {}}
FirstUnpriceable(items) ==
  IF Unpriceable(items) = {} THEN 0
  ELSE CHOOSE i \in Unpriceable(items) : \A j \in Unpriceable(items) : i <= j

\* C3 as claimed: a create_order request with an item without unit_price
\* whose material_id names no material is answered MaterialNotFound naming
\* that material id, and has inserted nothing.
C3_AsClaimed ==
  \A r \in Answered("create_order") :
    \A i \in Unpriceable(req[r].arrived.items) :
      /\ Get(req[r].result) = MaterialNotFound(req[r].arrived.items[i].material_id)
      /\ req[r].writes = 0

\* C3, amended: such a request is answered with a client error and leaves
\* the order collection as it was; the error is that of the first such item:
\* InvalidIdentifier when its material_id is no well-formed identifier,
\* MaterialNotFound naming its material id otherwise.
C3_FirstUnpriceableFails ==
  [][\A r \in Req :
       (/\ req'[r].pc = "done" /\ req'[r].op = "create_order"
        /\ req'[r] # req[r]
        /\ Unpriceable(req'[r].arrived.items) # {})
       => LET first == req'[r].arrived.items[FirstUnpriceable(req'[r].arrived.items)]
          IN  /\ Get(req'[r].result) =
                   IF first.material_id.k \in {"hex", "HEX"}
                   THEN MaterialNotFound(first.material_id)
                   ELSE InvalidIdentifier
              /\ req'[r].writes = 0
              /\ order' = order]_vars

\* C3 happens: with an order in the store, a request whose first item was
\* priced is answered MaterialNotFound for its second item.
C3_Witness ==
  \E r \in Answered("create_order") :
    /\ order # <<>>
    /\ FirstUnpriceable(req[r].arrived.items) = 2
    /\ Get(req[r].result).status = 404

C5_AsClaimed ==
  \A r \in Answered("list_orders") :
    /\ Get(req[r].result).status = 200
    /\ \A i \in 1..Len(Body(r)) :
         LET e == Body(r)[i]
         IN  /\ Named(customer, e.customer_id) = {} => IsNone(e.customer_name)
             /\ (\/ IsNone(e.installer_id)
                 \/ Named(installer, Get(e.installer_id)) = {})
                => IsNone(e.installer_name)

\* the orders whose status and customer_id equal the filters that are given
Selected(status, customer_id) ==
  SelectSeq(order, LAMBDA d :
    /\ IsNone(status) \/ d.status = Get(status)
    /\ IsNone(customer_id) \/ d.customer_id = Get(customer_id))

\* C7 as claimed: the list list_orders returns has one entry for each order
\* whose status and customer_id equal the filters that are given, any string
\* being a filter, in the order of the store.
C7_AsClaimed ==
  \A r \in Succeeded("list_orders") :
    LET want == Selected(req[r].arrived.status, req[r].arrived.customer_id)
    IN  /\ Len(Body(r)) = Len(want)
        /\ \A i \in 1..Len(want) : Body(r)[i].id = Hex(want[i]._id.n)

\* C9 as claimed: an order created without a status is stored with status
\* "new" and selected by the status filter "new".
C9_AsClaimed ==
  \A r \in Succeeded("create_order") :
    IsNone(req[r].arrived.status) =>
      \A k \in OrdersNamed(r) :
        /\ order[k].status = "new"
        /\ Matches(order[k], order_filter(Some("new"), None))

\* C9, amended: an order created without a status is stored with status
\* "ny", and is among the orders the status filter "ny" selects and not
\* among those the filter "new" selects.
C9_DefaultIsNy ==
  \A r \in Succeeded("create_order") :
    IsNone(req[r].arrived.status) =>
      /\ OrdersNamed(r) # {}
      /\ \A k \in OrdersNamed(r) :
           /\ order[k].status = "ny"
           /\ Matches(order[k], order_filter(Some("ny"), None))
           /\ ~Matches(order[k], order_filter(Some("new"), None))

\* C9 happens: an order that arrived without a status is stored beside an
\* order of another status.
C9_Witness ==
  \E r \in Succeeded("create_order") :
    /\ IsNone(req[r].arrived.status)
    /\ OrdersNamed(r) # {}
    /\ \E k \in 1..Len(order) : order[k].status = ""

\* every document of old is in new, at its place and as it was
Kept(old, new) ==
  /\ Len(new) >= Len(old)
  /\ \A i \in 1..Len(old) : new[i] = old[i]

\* C6: no request modifies or removes a stored document.
C6_NeverModified ==
  [][/\ Kept(customer, customer') /\ Kept(installer, installer')
     /\ Kept(material, material') /\ Kept(order, order')]_vars

\* C6 happens: an order holds an item priced from a material, a material of
\* another price was created after it, and the orders have been listed.
C6_Witness ==
  /\ req["w1"].pc = "done" /\ req["w1"].op = "list_orders"
  /\ \E k \in 1..Len(order), m, n \in 1..Len(material) :
       /\ order[k].items # <<>>
       /\ order[k].items[1].material_id = Hex(material[m]._id.n)
       /\ order[k].items[1].unit_price = Some(material[m].price)
       /\ material[n]._id.n > order[k]._id.n
       /\ material[n].price # material[m].price

\* the results of serialize, applied once or twice
Serialized == {r \in Req : req[r].op \in {"serialize", "serialize_again"}}

Complete(doc) ==
  /\ \A i \in 1..Len(doc.items) : ~IsNone(doc.items[i].unit_price)
  /\ ~IsNone(doc.total)

\* C10: however the store calls of concurrent requests interleave, an
\* answered create_order has either failed with InvalidIdentifier or
\* MaterialNotFound and inserted nothing, or succeeded and inserted one
\* order holding all of its items with their prices; a request inserts
\* nothing before that; and no order that is stored, or that list_orders
\* holds or returns, lacks a unit_price or its total.
C10_AllOrNothing ==
  /\ \A r \in Answered("create_order") :
       \/ /\ Get(req[r].result).status \in {400, 404}
          /\ req[r].writes = 0
       \/ /\ Get(req[r].result).status = 200
          /\ req[r].writes = 1
          /\ Cardinality(OrdersNamed(r)) = 1
          /\ \A k \in OrdersNamed(r) :
               /\ Len(order[k].items) = Len(req[r].arrived.items)
               /\ \A i \in 1..Len(order[k].items) :
                    order[k].items[i].material_id
                      = req[r].arrived.items[i].material_id
               /\ order[k].total = Some(Body(r).total)
  /\ \A r \in Req : req[r].pc = "items" => req[r].writes = 0
  /\ \A k \in 1..Len(order) : Complete(order[k])
  /\ \A r \in Req :
       /\ \A i \in 1..Len(req[r].docs) : Complete(req[r].docs[i])
       /\ \A i \in 1..Len(req[r].enriched) : Complete(req[r].enriched[i])
  /\ \A r \in Succeeded("list_orders") :
       \A i \in 1..Len(Body(r)) : Complete(Body(r)[i])

\* C10 happens: of two create_order requests in progress at the same time,
\* one has succeeded with two items and the other has failed, and a material
\* was created meanwhile.
C10_Witness ==
  \E r1, r2 \in Answered("create_order") :
    /\ Get(req[r1].result).status = 200
    /\ Len(req[r1].arrived.items) = 2
    /\ Get(req[r2].result).status = 404
    /\ \E m \in 1..Len(material), k \in OrdersNamed(r1) :
         material[m]._id.n < order[k]._id.n

====
